---- MODULE Spec2Model ----
(***************************************************************************)
(* luminos-jp: the word-frequency page (src/app/page.tsx) and its two API  *)
(* routes (api/fetch-url, api/dictionary).                                  *)
(*                                                                          *)
(* Strings whose content matters (tokens, words, definitions, readings,     *)
(* part-of-speech labels) are sequences of UTF-16 code units, which is what *)
(* String.length, the regular expression of isKanji and === work on.        *)
(* The user-visible error of the page is only ever compared against '' and  *)
(* 'no_words_found', so it is kept as a TLA+ string.                        *)
(***************************************************************************)
EXTENDS Integers, Sequences, FiniteSets, TLC

VARIABLES
    copy,        \* which of the two Home components of page.tsx is the page
    world,       \* behaviour of the external dictionary for the long page
    url,         \* useState('')            page.tsx:44
    results,     \* useState<WordResult[]>  page.tsx:45
    resultsOf,   \* the run whose setResults wrote the current value of results
    loading,     \* useState(false)         page.tsx:46
    error,       \* useState('')            page.tsx:47
    tokenizer,   \* useState<Tokenizer|null> page.tsx:48 ("building","ready","failed")
    nRuns,       \* number of analyzeText calls that passed validation
    run,         \* per call of analyzeText: position and local variables
    net,         \* requests and responses in flight
    tokens,      \* ranker on its own: the token sequence
    tokIdx,      \* ranker on its own: tokens consumed by forEach
    wordCount,   \* ranker on its own: the Map, as pairs in insertion order
    topWords,    \* ranker on its own: the sorted, sliced entries
    rankPc,      \* ranker on its own: "off", "count", "sort", "done"
    request,     \* dictionary route on its own: the request it is given
    upstream,    \* dictionary route on its own: what the external dictionary answers
    response,    \* dictionary route on its own: the response it returns
    csv          \* the text handed to the Blob by exportToAnki, <<>> before the export

pageVars == <<copy, world, url, results, resultsOf, loading, error, tokenizer, nRuns, run, net>>
rankVars == <<tokens, tokIdx, wordCount, topWords, rankPc>>
routeVars == <<request, upstream, response>>
exportVars == <<csv>>
vars == <<copy, world, url, results, resultsOf, loading, error, tokenizer, nRuns, run, net,
          tokens, tokIdx, wordCount, topWords, rankPc, request, upstream, response, csv>>

(***************************************************************************)
(* Bounds                                                                   *)
(***************************************************************************)
MaxRuns == 2
MaxTokens == 4
BigWords == 52

(***************************************************************************)
(* Program constants                                                        *)
(***************************************************************************)
KanjiLo == 19968
KanjiHi == 40879
PoolSize == 50
KeepTarget == 20

(***************************************************************************)
(* String literals of the source, as code units                             *)
(***************************************************************************)
NoDefinitionFound ==
    <<78, 111, 32, 100, 101, 102, 105, 110, 105, 116, 105, 111, 110, 32, 102, 111, 117, 110, 100>>
ErrorFetchingDefinition ==
    <<69, 114, 114, 111, 114, 32, 102, 101, 116, 99, 104, 105, 110, 103, 32, 100, 101, 102, 105, 110, 105, 116, 105, 111, 110>>
Noun == <<110, 111, 117, 110>>

(***************************************************************************)
(* Sample surface forms                                                     *)
(***************************************************************************)
Nihongo == <<26085, 26412, 35486>>
Tenki == <<22825, 27671>>
Ha == <<12399>>
Neko == <<29483>>
Kana == <<12363, 12394>>
LoEdgeIn == <<19968, 12399>>
LoEdgeOut == <<19967, 12399>>
HiEdgeIn == <<12399, 40879>>
HiEdgeOut == <<12399, 40880>>
Astral == <<55362, 57271>>

Alphabet ==
    {Nihongo, Tenki, Ha, Neko, Kana, LoEdgeIn, LoEdgeOut, HiEdgeIn, HiEdgeOut, Astral}

ExampleTokens == <<Nihongo, Nihongo, Tenki, Ha, Tenki, Neko>>

(***************************************************************************)
(* Frequency ranker                                                         *)
(***************************************************************************)
isKanji_upper_exclusive(text) ==
    \E i \in 1..Len(text) : text[i] >= KanjiLo /\ text[i] < KanjiHi

isKanji(text) ==
    \E i \in 1..Len(text) : text[i] >= KanjiLo /\ text[i] <= KanjiHi

Qualifies(word) == Len(word) > 1 /\ isKanji(word)

MapHas(m, word) == \E i \in 1..Len(m) : m[i].word = word

MapGet(m, word) ==
    IF MapHas(m, word)
    THEN (CHOOSE e \in {m[i] : i \in 1..Len(m)} : e.word = word).count
    ELSE 0

MapSet(m, word, n) ==
    IF MapHas(m, word)
    THEN [i \in 1..Len(m) |-> IF m[i].word = word THEN [word |-> word, count |-> n] ELSE m[i]]
    ELSE Append(m, [word |-> word, count |-> n])

CountToken(m, word) ==
    IF Qualifies(word) THEN MapSet(m, word, MapGet(m, word) + 1) ELSE m

\* tokens.forEach(...): one CountToken per token, left to right (each
\* intermediate map is evaluated before the next token is taken)
RECURSIVE CountFrom(_, _, _)
CountFrom(m, toks, i) ==
    IF i > Len(toks) THEN m
    ELSE LET next == CountToken(m, toks[i])
         IN  IF Len(next) >= 0 THEN CountFrom(next, toks, i + 1) ELSE next

CountAll(m, toks) == CountFrom(m, toks, 1)

\* comparator ([, a], [, b]) => b - a
Compare(x, y) == y.count - x.count

Before(s, x) == Cardinality({i \in 1..Len(s) : Compare(s[i], x) <= 0})

InsertSorted_ties_reversed(s, x) ==
    LET k == Cardinality({i \in 1..Len(s) : Compare(s[i], x) < 0})
    IN  SubSeq(s, 1, k) \o <<x>> \o SubSeq(s, k + 1, Len(s))

InsertSorted(s, x) ==
    LET k == Before(s, x)
    IN  SubSeq(s, 1, k) \o <<x>> \o SubSeq(s, k + 1, Len(s))

\* Array.prototype.sort with that comparator; the sort is stable, so it is
\* an insertion of the entries in their original order
RECURSIVE SortFrom(_, _, _)
SortFrom(acc, s, i) ==
    IF i > Len(s) THEN acc
    ELSE LET next == InsertSorted(acc, s[i])
         IN  IF Len(next) >= 0 THEN SortFrom(next, s, i + 1) ELSE next

SortEntries(s) == SortFrom(<<>>, s, 1)

Slice_keeps_all(s, n) == s

\* slice(0, n)
Slice(s, n) == SubSeq(s, 1, IF Len(s) < n THEN Len(s) ELSE n)

TopWords(m) == Slice(SortEntries(m), PoolSize)

(***************************************************************************)
(* The ranker on its own: any token sequence, consumed token by token       *)
(***************************************************************************)
RECURSIVE SeqsUpTo(_, _)
SeqsUpTo(S, n) ==
    IF n = 0 THEN {<<>>}
    ELSE LET shorter == SeqsUpTo(S, n - 1)
         IN  shorter \cup {Append(s, x) : s \in {t \in shorter : Len(t) = n - 1}, x \in S}

\* the route and the export studied on their own are not running
RouteOff ==
    /\ request = [kind |-> "none"]
    /\ upstream = [kind |-> "pending"]
    /\ response = [status |-> 0, body |-> [pending |-> TRUE]]

ExportOff == csv = <<>>

PageIdle ==
    /\ copy = 1
    /\ world = "all"
    /\ url = ""
    /\ results = <<>>
    /\ resultsOf = 0
    /\ loading = FALSE
    /\ error = ""
    /\ tokenizer = "building"
    /\ nRuns = 0
    /\ run = <<>>
    /\ net = {}

RankInit ==
    /\ PageIdle
    /\ RouteOff
    /\ ExportOff
    /\ tokens \in SeqsUpTo(Alphabet, MaxTokens) \cup {ExampleTokens}
    /\ tokIdx = 0
    /\ wordCount = <<>>
    /\ topWords = <<>>
    /\ rankPc = "count"

ForEachToken ==
    /\ rankPc = "count"
    /\ tokIdx < Len(tokens)
    /\ tokIdx' = tokIdx + 1
    /\ wordCount' = CountToken(wordCount, tokens[tokIdx + 1])
    /\ UNCHANGED <<tokens, topWords, rankPc>>
    /\ UNCHANGED <<pageVars, routeVars, exportVars>>

SortAndSlice ==
    /\ rankPc = "count"
    /\ tokIdx = Len(tokens)
    /\ topWords' = TopWords(wordCount)
    /\ rankPc' = "done"
    /\ UNCHANGED <<tokens, tokIdx, wordCount>>
    /\ UNCHANGED <<pageVars, routeVars, exportVars>>

RankNext == ForEachToken \/ SortAndSlice

SpecRank == RankInit /\ [][RankNext]_vars

(***************************************************************************)
(* String helpers: split(' ')[0], toLowerCase, includes, join               *)
(***************************************************************************)
Space == 32
Semicolon == 59

FirstSpace(str) ==
    IF \E i \in 1..Len(str) : str[i] = Space
    THEN CHOOSE i \in 1..Len(str) : str[i] = Space /\ \A j \in 1..(i - 1) : str[j] # Space
    ELSE Len(str) + 1

SplitFirst(str) == SubSeq(str, 1, FirstSpace(str) - 1)

ToLowerCase(str) ==
    [i \in 1..Len(str) |-> IF str[i] >= 65 /\ str[i] <= 90 THEN str[i] + 32 ELSE str[i]]

Includes(str, sub) ==
    \E k \in 0..(Len(str) - Len(sub)) : SubSeq(str, k + 1, k + Len(sub)) = sub

RECURSIVE Join(_, _)
Join(strs, sep) ==
    IF strs = <<>> THEN <<>>
    ELSE IF Len(strs) = 1 THEN strs[1]
    ELSE strs[1] \o sep \o Join(Tail(strs), sep)

RECURSIVE FilterBoolean(_)
FilterBoolean(strs) ==
    IF strs = <<>> THEN <<>>
    ELSE IF Head(strs) = <<>> THEN FilterBoolean(Tail(strs))
    ELSE <<Head(strs)>> \o FilterBoolean(Tail(strs))

Verb == <<118, 101, 114, 98>>
Ichidan == <<105, 99, 104, 105, 100, 97, 110>>
Godan == <<103, 111, 100, 97, 110>>
IchidanVerb == <<105, 99, 104, 105, 100, 97, 110, 32, 118, 101, 114, 98>>
GodanVerb == <<103, 111, 100, 97, 110, 32, 118, 101, 114, 98>>

(***************************************************************************)
(* api/dictionary: POST                                                     *)
(* The upstream answer is one of                                            *)
(*   [kind |-> "reject"]    fetch throws                                    *)
(*   [kind |-> "badjson"]   response.json() throws                          *)
(*   [kind |-> "nodata"]    the JSON has no data array                      *)
(*   [kind |-> "data", data |-> entries]                                    *)
(* An entry is [japanese |-> <<[reading |-> r], ...>>, senses |-> <<...>>]; *)
(* a missing reading is the empty string, which filter(Boolean) drops too.  *)
(***************************************************************************)
Readings_unfiltered(entry) == [i \in 1..Len(entry.japanese) |-> entry.japanese[i].reading]

\* firstResult.japanese.map(j => j.reading).filter(Boolean)
Readings(entry) == FilterBoolean([i \in 1..Len(entry.japanese) |-> entry.japanese[i].reading])

ExtraReadings(readings) == IF Len(readings) > 1 THEN Len(readings) - 1 ELSE 0

FirstTag(entry) ==
    IF entry.senses = <<>> THEN Noun
    ELSE IF entry.senses[1].parts_of_speech = <<>> THEN Noun
    ELSE IF entry.senses[1].parts_of_speech[1] = <<>> THEN Noun
    ELSE entry.senses[1].parts_of_speech[1]

VerbType_ichidan_first(entry) ==
    LET tags == entry.senses[1].parts_of_speech
        ichidan == {i \in 1..Len(tags) : Includes(tags[i], Ichidan)}
        godan == {i \in 1..Len(tags) : Includes(tags[i], Godan)}
    IN  IF ichidan # {} THEN tags[CHOOSE i \in ichidan : \A j \in ichidan : i <= j]
        ELSE IF godan # {} THEN tags[CHOOSE i \in godan : \A j \in godan : i <= j]
        ELSE <<>>

\* parts_of_speech.find(pos => pos.includes('ichidan') || pos.includes('godan'))
VerbType(entry) ==
    LET tags == entry.senses[1].parts_of_speech
        hits == {i \in 1..Len(tags) : Includes(tags[i], Ichidan) \/ Includes(tags[i], Godan)}
    IN  IF hits = {} THEN <<>>
        ELSE tags[CHOOSE i \in hits : \A j \in hits : i <= j]

PartOfSpeech(entry) ==
    LET base == ToLowerCase(SplitFirst(FirstTag(entry)))
    IN  IF base = Verb /\ entry.senses # <<>>
        THEN LET verbType == VerbType(entry)
             IN  IF verbType # <<>>
                 THEN IF Includes(verbType, Ichidan) THEN IchidanVerb ELSE GodanVerb
                 ELSE base
        ELSE base

Definition_no_fallback(entry) ==
    IF entry.senses = <<>> THEN NoDefinitionFound
    ELSE Join(entry.senses[1].english_definitions, <<Semicolon, Space>>)

\* senses[0]?.english_definitions.join('; ') || 'No definition found'
Definition(entry) ==
    LET joined == IF entry.senses = <<>> THEN <<>>
                  ELSE Join(entry.senses[1].english_definitions, <<Semicolon, Space>>)
    IN  IF joined = <<>> THEN NoDefinitionFound ELSE joined

DictionaryError ==
    [status |-> 500,
     body |-> [definition |-> ErrorFetchingDefinition, reading |-> <<>>,
               extraReadings |-> 0, partOfSpeech |-> Noun]]

DictionaryFound(entry) ==
    LET readings == Readings(entry)
    IN  [status |-> 200,
         body |-> IF readings = <<>>
                  THEN [definition |-> Definition(entry),
                        extraReadings |-> ExtraReadings(readings),
                        partOfSpeech |-> PartOfSpeech(entry)]
                  ELSE [definition |-> Definition(entry),
                        reading |-> readings[1],
                        extraReadings |-> ExtraReadings(readings),
                        partOfSpeech |-> PartOfSpeech(entry)]]

\* an entry that lacks a field the route dereferences: firstResult.japanese.map,
\* firstResult.senses[0], senses[0].parts_of_speech[0] and
\* senses[0].english_definitions.join throw a TypeError on undefined
EntryThrows(entry) ==
    \/ "japanese" \notin DOMAIN entry
    \/ "senses" \notin DOMAIN entry
    \/ /\ "senses" \in DOMAIN entry
       /\ entry.senses # <<>>
       /\ \/ "parts_of_speech" \notin DOMAIN entry.senses[1]
          \/ "english_definitions" \notin DOMAIN entry.senses[1]

DictionaryPOST_empty_is_error(up) ==
    IF up.kind # "data" THEN DictionaryError
    ELSE IF up.data = <<>> THEN DictionaryError
    ELSE IF EntryThrows(up.data[1]) THEN DictionaryError
    ELSE DictionaryFound(up.data[1])

\* the route once the request body has been read
DictionaryPOST(up) ==
    IF up.kind # "data" THEN DictionaryError
    ELSE IF up.data = <<>> THEN [status |-> 200, body |-> [definition |-> NoDefinitionFound]]
    ELSE IF EntryThrows(up.data[1]) THEN DictionaryError
    ELSE DictionaryFound(up.data[1])

POST_reads_body_outside_try(req, up) ==
    IF req.kind # "json" THEN [status |-> 500, body |-> [uncaught |-> TRUE]]
    ELSE DictionaryPOST(up)

\* the whole route: request.json() is inside the try as well; a request is
\* [kind |-> "json", word |-> w] or [kind |-> "unreadable"]
POST(req, up) ==
    IF req.kind # "json" THEN DictionaryError ELSE DictionaryPOST(up)

(***************************************************************************)
(* api/fetch-url: POST                                                      *)
(* The upstream answer is [kind |-> "reject"] (fetch or cheerio throws) or  *)
(* [kind |-> "html", text |-> t] with t the text of the body element.       *)
(***************************************************************************)
Trim(text) == IF text = "  " THEN "" ELSE text

FetchUrlPOST(up) ==
    IF up.kind = "reject"
    THEN [status |-> 500, body |-> [error |-> "Failed to fetch URL"]]
    ELSE [status |-> 200, body |-> [content |-> Trim(up.text)]]

(***************************************************************************)
(* The outside world of the page                                            *)
(***************************************************************************)
Urls == {"", "https://a"}

\* what the extractor's upstream fetch can give
ExtractorUpstream ==
    {[kind |-> "reject"]} \cup
    {[kind |-> "html", text |-> t] : t \in {"", "  ", "example", "nokanji", "big"}}

BigWord(k) == <<26085, 19968 + k>>

IsBigWord(word) ==
    Len(word) = 2 /\ word[1] = 26085 /\ word[2] > 19968 /\ word[2] <= 19968 + BigWords

BigIndex(word) == word[2] - 19968

BigTokens == [k \in 1..BigWords |-> BigWord(k)] \o <<BigWord(BigWords), BigWord(3)>>

\* tokenizer.tokenize(content), surface forms only
Tokenize(content) ==
    IF content = "example" THEN ExampleTokens
    ELSE IF content = "big" THEN BigTokens
    ELSE <<Ha, Kana, Neko>>

Gloss1 == <<115, 117, 110>>
Gloss2 == <<100, 97, 121>>
TagNoun == <<78, 111, 117, 110>>

EntryFull ==
    [japanese |-> <<[reading |-> Kana], [reading |-> <<>>], [reading |-> Ha]>>,
     senses |-> <<[english_definitions |-> <<Gloss1, Gloss2>>, parts_of_speech |-> <<TagNoun>>]>>]

EntryNoReading ==
    [japanese |-> <<[reading |-> <<>>]>>,
     senses |-> <<[english_definitions |-> <<Gloss1>>, parts_of_speech |-> <<>>]>>]

EntryNoGloss ==
    [japanese |-> <<[reading |-> Kana]>>,
     senses |-> <<[english_definitions |-> <<>>, parts_of_speech |-> <<TagNoun>>]>>]

EntryNoSenses == [japanese |-> <<[reading |-> Kana]>>, senses |-> <<>>]

AllUpstream ==
    {[kind |-> "reject"], [kind |-> "badjson"], [kind |-> "nodata"],
     [kind |-> "data", data |-> <<>>],
     [kind |-> "data", data |-> <<EntryFull, EntryNoGloss>>],
     [kind |-> "data", data |-> <<EntryNoReading>>],
     [kind |-> "data", data |-> <<EntryNoGloss>>],
     [kind |-> "data", data |-> <<EntryNoSenses>>]}

Worlds == {"all", "none", "mixed"}

\* what the external dictionary can answer for a word: anything for the words
\* of the short page, fixed by the world for the words of the long page
DictionaryUpstream(w, word) ==
    IF ~IsBigWord(word) THEN AllUpstream
    ELSE IF w = "all" THEN {[kind |-> "data", data |-> <<EntryFull>>]}
    ELSE IF w = "none" THEN {[kind |-> "data", data |-> <<>>]}
    ELSE IF BigIndex(word) % 4 = 0 THEN {[kind |-> "data", data |-> <<>>]}
    ELSE IF BigIndex(word) % 4 = 1 THEN {[kind |-> "data", data |-> <<EntryFull>>]}
    ELSE IF BigIndex(word) % 4 = 2 THEN {[kind |-> "reject"]}
    ELSE {[kind |-> "data", data |-> <<EntryNoGloss>>]}

\* whether the browser's own request for a word can fail
ClientFaulty(w, word) ==
    \/ ~IsBigWord(word)
    \/ w = "mixed" /\ BigIndex(word) % 10 = 5

\* wanakana.toRomaji: kana to latin letters, everything else unchanged
RECURSIVE ToRomaji(_)
ToRomaji(word) ==
    IF word = <<>> THEN <<>>
    ELSE (IF Head(word) = 12399 THEN <<104, 97>>
          ELSE IF Head(word) = 12363 THEN <<107, 97>>
          ELSE IF Head(word) = 12394 THEN <<110, 97>>
          ELSE <<Head(word)>>) \o ToRomaji(Tail(word))

(***************************************************************************)
(* The page: Home and analyzeText                                           *)
(***************************************************************************)
TokenizerReady == tokenizer = "ready"

TriggerDisabled_ignores_loading == ~TokenizerReady

\* <button onClick={analyzeText} disabled={loading || !tokenizer}>
TriggerDisabled == loading \/ ~TokenizerReady

Thrown(msg) == [isError |-> TRUE, message |-> msg]

\* err instanceof Error ? err.message : 'Failed to analyze text'
CatchMessage(err) == IF err.isError THEN err.message ELSE "Failed to analyze text"

TransportErrors ==
    {"Failed to fetch", "Unexpected token", "No content received from URL",
     "tokenize failed", "Failed to analyze text"}

NoResponse == [status |-> 0, body |-> [pending |-> TRUE]]

\* a request of run r: st is "req" on its way to the route, "resp" answered and
\* on its way back, "body" received by the page and being read by json();
\* up is the upstream answer the route got, resp the route's response
Request(r, api, u, word) ==
    [run |-> r, api |-> api, url |-> u, word |-> word, st |-> "req",
     up |-> [kind |-> "pending"], resp |-> NoResponse]

\* setResults([]) on submit: present in the first Home, absent in the second
ClearsOnSubmit == copy = 1

\* the negation of the guard of the push
Skippable(definition) ==
    definition = ErrorFetchingDefinition \/ definition = NoDefinitionFound

Field(body, name, default) ==
    IF name \in DOMAIN body THEN body[name] ELSE default

\* the record pushed to processedResults
WordResult(entry, data) ==
    [word |-> entry.word,
     count |-> entry.count,
     reading |-> IF Field(data, "reading", <<>>) # <<>> THEN data.reading ELSE ToRomaji(entry.word),
     extraReadings |-> Field(data, "extraReadings", 0),
     definition |-> data.definition,
     partOfSpeech |-> IF Field(data, "partOfSpeech", <<>>) # <<>> THEN data.partOfSpeech ELSE Noun]

ReachedTarget_off_by_one(processed) == Len(processed) = KeepTarget + 1

\* if (processedResults.length === 20) break
ReachedTarget(processed) == Len(processed) = KeepTarget

RankOff ==
    /\ tokens = <<>>
    /\ tokIdx = 0
    /\ wordCount = <<>>
    /\ topWords = <<>>
    /\ rankPc = "off"

Init ==
    /\ copy \in {1, 2}
    /\ world \in Worlds
    /\ url = ""
    /\ results = <<>>
    /\ resultsOf = 0
    /\ loading = FALSE
    /\ error = ""
    /\ tokenizer = "building"
    /\ nRuns = 0
    /\ run = <<>>
    /\ net = {}
    /\ RankOff
    /\ RouteOff
    /\ ExportOff

\* kuromoji.builder(...).build(callback), the success branch
TokenizerBuilt ==
    /\ tokenizer = "building"
    /\ tokenizer' = "ready"
    /\ UNCHANGED <<copy, world, url, results, resultsOf, loading, error, nRuns, run, net>>
    /\ UNCHANGED <<rankVars, routeVars, exportVars>>

\* the same callback with err set: the tokenizer stays null
TokenizerBuildFailed ==
    /\ tokenizer = "building"
    /\ tokenizer' = "failed"
    /\ UNCHANGED <<copy, world, url, results, resultsOf, loading, error, nRuns, run, net>>
    /\ UNCHANGED <<rankVars, routeVars, exportVars>>

\* onChange of the input
setUrl ==
    /\ \E u \in Urls : u # url /\ url' = u
    /\ UNCHANGED <<copy, world, results, resultsOf, loading, error, tokenizer, nRuns, run, net>>
    /\ UNCHANGED <<rankVars, routeVars, exportVars>>

\* the locals of one call: pc is the await it is at, content is data.content
\* once it has been tokenized, ranked says that topWords has been computed,
\* idx is the position of the loop in topWords, outcome is "none" until the
\* call ends and then "Success", "NoResults" or "Failed"
NewRun ==
    [pc |-> "fetchUrl", content |-> "", ranked |-> FALSE, topWords |-> <<>>, idx |-> 0,
     processedResults |-> <<>>, outcome |-> "none"]

\* the locals of a call that has returned are gone; only how it ended is kept
\* once a later call starts
Returned(rec) ==
    IF rec.pc = "done"
    THEN [rec EXCEPT !.content = "", !.ranked = FALSE, !.topWords = <<>>, !.idx = 0,
                     !.processedResults = <<>>]
    ELSE rec

Validate_no_url_check(u) ==
    IF ~TokenizerReady THEN "Tokenizer not ready" ELSE ""

\* the two early returns of analyzeText: the message set, or "" to go on
Validate(u) ==
    IF u = "" THEN "Please enter a URL"
    ELSE IF ~TokenizerReady THEN "Tokenizer not ready"
    ELSE ""

\* a click on the trigger: analyzeText up to its first await
analyzeText ==
    /\ ~TriggerDisabled
    /\ IF Validate(url) # ""
       THEN /\ error' = Validate(url)
            /\ UNCHANGED <<results, resultsOf, loading, nRuns, run, net>>
       ELSE /\ nRuns < MaxRuns
            /\ loading' = TRUE
            /\ error' = ""
            /\ IF ClearsOnSubmit
               THEN results' = <<>> /\ resultsOf' = nRuns + 1
               ELSE UNCHANGED <<results, resultsOf>>
            /\ nRuns' = nRuns + 1
            /\ run' = Append([r \in 1..Len(run) |-> Returned(run[r])], NewRun)
            /\ net' = net \cup {Request(nRuns + 1, "fetch-url", url, <<>>)}
    /\ UNCHANGED <<copy, world, url, tokenizer>>
    /\ UNCHANGED <<rankVars, routeVars, exportVars>>

\* api/fetch-url handles a request
FetchUrlRoute ==
    /\ \E m \in net :
          /\ m.api = "fetch-url"
          /\ m.st = "req"
          /\ \E up \in ExtractorUpstream :
                net' = (net \ {m}) \cup
                           {[m EXCEPT !.st = "resp", !.up = up, !.resp = FetchUrlPOST(up)]}
    /\ UNCHANGED <<copy, world, url, results, resultsOf, loading, error, tokenizer, nRuns, run>>
    /\ UNCHANGED <<rankVars, routeVars, exportVars>>

\* api/dictionary handles a request
DictionaryRoute ==
    /\ \E m \in net :
          /\ m.api = "dictionary"
          /\ m.st = "req"
          /\ \E up \in DictionaryUpstream(world, m.word) :
                net' = (net \ {m}) \cup
                           {[m EXCEPT !.st = "resp", !.up = up, !.resp = DictionaryPOST(up)]}
    /\ UNCHANGED <<copy, world, url, results, resultsOf, loading, error, tokenizer, nRuns, run>>
    /\ UNCHANGED <<rankVars, routeVars, exportVars>>

PageFrame ==
    /\ UNCHANGED <<copy, world, url, tokenizer, nRuns>>
    /\ UNCHANGED <<rankVars, routeVars, exportVars>>

\* the run goes on to its next await
Advance(r, rec, newNet) ==
    /\ run' = [run EXCEPT ![r] = rec]
    /\ net' = newNet
    /\ UNCHANGED <<results, resultsOf, error, loading>>

Fail_keeps_loading(r, rec, err, newNet) ==
    /\ run' = [run EXCEPT ![r] = [rec EXCEPT !.pc = "done", !.outcome = "Failed"]]
    /\ net' = newNet
    /\ error' = CatchMessage(err)
    /\ UNCHANGED <<results, resultsOf, loading>>

\* the outer catch and finally
Fail(r, rec, err, newNet) ==
    /\ run' = [run EXCEPT ![r] = [rec EXCEPT !.pc = "done", !.outcome = "Failed"]]
    /\ net' = newNet
    /\ error' = CatchMessage(err)
    /\ loading' = FALSE
    /\ UNCHANGED <<results, resultsOf>>

OutcomeError_as_failure(processed, err) ==
    IF Len(processed) = 0 THEN "Failed to analyze text" ELSE err

\* the error after the loop: 'no_words_found' in the first Home when nothing
\* was kept, untouched otherwise
OutcomeError(processed, err) ==
    IF copy = 1 /\ Len(processed) = 0 THEN "no_words_found" ELSE err

\* setResults(processedResults): skipped by the first Home when nothing was kept
SetsResults(processed) == ~(copy = 1 /\ Len(processed) = 0)

\* after the loop: set the outcome, then finally
Finish(r, rec, newNet) ==
    /\ run' = [run EXCEPT ![r] =
                  [rec EXCEPT !.pc = "done",
                              !.outcome = IF rec.processedResults = <<>>
                                          THEN "NoResults" ELSE "Success"]]
    /\ net' = newNet
    /\ error' = OutcomeError(rec.processedResults, error)
    /\ IF SetsResults(rec.processedResults)
       THEN results' = rec.processedResults /\ resultsOf' = r
       ELSE UNCHANGED <<results, resultsOf>>
    /\ loading' = FALSE

CatchInner_rethrows(r, rec, newNet) == Fail(r, rec, Thrown("Failed to fetch"), newNet)

NextIteration_two_at_once(r, rec, newNet) ==
    IF rec.idx < Len(rec.topWords)
    THEN Advance(r, [rec EXCEPT !.idx = rec.idx + 1, !.pc = "dictFetch"],
                 newNet \cup {Request(r, "dictionary", "", rec.topWords[k].word) :
                                 k \in {j \in {rec.idx + 1, rec.idx + 2} : j <= Len(rec.topWords)}})
    ELSE Finish(r, rec, newNet)

\* the for loop moves to its next candidate, or ends
NextIteration(r, rec, newNet) ==
    IF rec.idx < Len(rec.topWords)
    THEN Advance(r, [rec EXCEPT !.idx = rec.idx + 1, !.pc = "dictFetch"],
                 newNet \cup {Request(r, "dictionary", "", rec.topWords[rec.idx + 1].word)})
    ELSE Finish(r, rec, newNet)

\* the catch inside the loop: log, continue
CatchInner(r, rec, newNet) == NextIteration(r, rec, newNet)

\* await fetch('/api/fetch-url') resolves
ExtractorFetchResolves ==
    /\ \E m \in net :
          /\ m.api = "fetch-url"
          /\ m.st = "resp"
          /\ run[m.run].pc = "fetchUrl"
          /\ Advance(m.run, [run[m.run] EXCEPT !.pc = "fetchUrlJson"],
                     (net \ {m}) \cup {[m EXCEPT !.st = "body"]})
    /\ PageFrame

\* await fetch('/api/fetch-url') rejects
ExtractorFetchRejects ==
    /\ \E m \in net :
          /\ m.api = "fetch-url"
          /\ m.st \in {"req", "resp"}
          /\ run[m.run].pc = "fetchUrl"
          /\ Fail(m.run, run[m.run], Thrown("Failed to fetch"), net \ {m})
    /\ PageFrame

\* await response.json() rejects
ExtractorJsonRejects ==
    /\ \E m \in net :
          /\ m.api = "fetch-url"
          /\ m.st = "body"
          /\ run[m.run].pc = "fetchUrlJson"
          /\ Fail(m.run, run[m.run], Thrown("Unexpected token"), net \ {m})
    /\ PageFrame

\* await response.json() resolves: content check, tokenize, count, sort,
\* slice, and the loop up to its first request
ExtractorJsonResolves ==
    /\ \E m \in net :
          /\ m.api = "fetch-url"
          /\ m.st = "body"
          /\ run[m.run].pc = "fetchUrlJson"
          /\ LET data == m.resp.body
                 content == Field(data, "content", "")
             IN  IF content = ""
                 THEN Fail(m.run, run[m.run], Thrown("No content received from URL"), net \ {m})
                 ELSE \/ Fail(m.run, run[m.run], Thrown("tokenize failed"), net \ {m})
                      \/ NextIteration(m.run,
                             [run[m.run] EXCEPT
                                 !.content = content,
                                 !.ranked = TRUE,
                                 !.topWords = TopWords(CountAll(<<>>, Tokenize(content)))],
                             net \ {m})
    /\ PageFrame

\* await fetch('/api/dictionary') resolves
LookupFetchResolves ==
    /\ \E m \in net :
          /\ m.api = "dictionary"
          /\ m.st = "resp"
          /\ run[m.run].pc = "dictFetch"
          /\ Advance(m.run, [run[m.run] EXCEPT !.pc = "dictJson"],
                     (net \ {m}) \cup {[m EXCEPT !.st = "body"]})
    /\ PageFrame

\* await fetch('/api/dictionary') rejects: the inner catch, continue
LookupFetchRejects ==
    /\ \E m \in net :
          /\ m.api = "dictionary"
          /\ m.st \in {"req", "resp"}
          /\ run[m.run].pc = "dictFetch"
          /\ ClientFaulty(world, m.word)
          /\ CatchInner(m.run, run[m.run], net \ {m})
    /\ PageFrame

\* await response.json() rejects: the inner catch, continue
LookupJsonRejects ==
    /\ \E m \in net :
          /\ m.api = "dictionary"
          /\ m.st = "body"
          /\ run[m.run].pc = "dictJson"
          /\ ClientFaulty(world, m.word)
          /\ CatchInner(m.run, run[m.run], net \ {m})
    /\ PageFrame

\* await response.json() resolves: the sentinel test, the push, the break
LookupJsonResolves ==
    /\ \E m \in net :
          /\ m.api = "dictionary"
          /\ m.st = "body"
          /\ run[m.run].pc = "dictJson"
          /\ LET rec == run[m.run]
                 data == m.resp.body
                 pushed == IF Skippable(data.definition)
                           THEN rec.processedResults
                           ELSE Append(rec.processedResults,
                                       WordResult(rec.topWords[rec.idx], data))
                 after == [rec EXCEPT !.processedResults = pushed]
             IN  IF ReachedTarget(pushed)
                 THEN Finish(m.run, after, net \ {m})
                 ELSE NextIteration(m.run, after, net \ {m})
    /\ PageFrame

Next ==
    \/ TokenizerBuilt
    \/ TokenizerBuildFailed
    \/ setUrl
    \/ analyzeText
    \/ FetchUrlRoute
    \/ DictionaryRoute
    \/ ExtractorFetchResolves
    \/ ExtractorFetchRejects
    \/ ExtractorJsonResolves
    \/ ExtractorJsonRejects
    \/ LookupFetchResolves
    \/ LookupFetchRejects
    \/ LookupJsonResolves
    \/ LookupJsonRejects

Spec == Init /\ [][Next]_vars

\* every issued request is answered, and every awaited promise settles: the
\* routes always return a response, and the continuation of an await runs once
\* its promise has resolved or rejected
AwaitProgress ==
    \/ FetchUrlRoute
    \/ DictionaryRoute
    \/ ExtractorFetchResolves
    \/ ExtractorFetchRejects
    \/ ExtractorJsonResolves
    \/ ExtractorJsonRejects
    \/ LookupFetchResolves
    \/ LookupFetchRejects
    \/ LookupJsonResolves
    \/ LookupJsonRejects

SpecLive == Spec /\ WF_vars(AwaitProgress)

(***************************************************************************)
(* exportToAnki on its own: the first Home shows a results list, the user   *)
(* clicks Export to Anki                                                    *)
(***************************************************************************)
MaxRows == 2

Newline == 10

\* 'Front;Back;Part of Speech;Definition'
CsvHeader ==
    <<70, 114, 111, 110, 116, 59, 66, 97, 99, 107, 59, 80, 97, 114, 116, 32, 111, 102,
      32, 83, 112, 101, 101, 99, 104, 59, 68, 101, 102, 105, 110, 105, 116, 105, 111, 110>>

\* `${word};${reading};${partOfSpeech};${definition}`
CsvRow(r) ==
    r.word \o <<Semicolon>> \o r.reading \o <<Semicolon>> \o r.partOfSpeech
           \o <<Semicolon>> \o r.definition

\* results.map(row).join('\n')
CsvContent(rs) == Join([i \in 1..Len(rs) |-> CsvRow(rs[i])], <<Newline>>)

\* `Front;Back;Part of Speech;Definition\n${csvContent}`
CsvWithHeader(rs) == CsvHeader \o <<Newline>> \o CsvContent(rs)

EntryThreeGlosses ==
    [japanese |-> <<[reading |-> Ha]>>,
     senses |-> <<[english_definitions |-> <<Gloss1, Gloss2, Gloss1>>,
                   parts_of_speech |-> <<Verb, GodanVerb>>]>>]

\* what the loop of analyzeText can push for a word the dictionary knows
ExportRows ==
    {WordResult([word |-> w, count |-> 1], DictionaryFound(e).body) :
        w \in {Nihongo, Tenki, BigWord(1), BigWord(2)},
        e \in {EntryFull, EntryNoReading, EntryThreeGlosses}}

\* the page after a run that ended in Success
ExportInit ==
    /\ copy = 1
    /\ world = "all"
    /\ url = "https://a"
    /\ results \in {rs \in SeqsUpTo(ExportRows, MaxRows) :
                       /\ rs # <<>>
                       /\ \A i, j \in 1..Len(rs) : rs[i].word = rs[j].word => i = j}
    /\ resultsOf = 1
    /\ loading = FALSE
    /\ error = ""
    /\ tokenizer = "ready"
    /\ nRuns = 1
    /\ run = <<[NewRun EXCEPT !.pc = "done", !.outcome = "Success"]>>
    /\ net = {}
    /\ RankOff
    /\ RouteOff
    /\ ExportOff

\* the Export to Anki button, rendered when results.length > 0: the handler up
\* to new Blob([csvWithHeader])
exportToAnki ==
    /\ copy = 1
    /\ Len(results) > 0
    /\ csv' = CsvWithHeader(results)
    /\ UNCHANGED <<pageVars, rankVars, routeVars>>

ExportNext == exportToAnki

SpecExport == ExportInit /\ [][ExportNext]_vars

(***************************************************************************)
(* api/dictionary on its own: any request, any answer of the external       *)
(* dictionary                                                               *)
(***************************************************************************)
MaxReadings == 3
MaxGlosses == 2
MaxTags == 3

TagVerbUnspecified ==
    <<86, 101, 114, 98, 32, 117, 110, 115, 112, 101, 99, 105, 102, 105, 101, 100>>
TagIchidanCapital == <<73, 99, 104, 105, 100, 97, 110, 32, 118, 101, 114, 98>>

Tags == {Verb, TagVerbUnspecified, GodanVerb, IchidanVerb, TagIchidanCapital, TagNoun, <<>>}

Entry(readings, glosses, tags) ==
    [japanese |-> [i \in 1..Len(readings) |-> [reading |-> readings[i]]],
     senses |-> <<[english_definitions |-> glosses, parts_of_speech |-> tags]>>]

\* entries with every field present
WellFormedEntries ==
    {Entry(r, g, <<TagNoun>>) : r \in SeqsUpTo({Kana, Ha, <<>>}, MaxReadings),
                                g \in SeqsUpTo({Gloss1, Gloss2, <<>>}, MaxGlosses)}
    \cup {Entry(<<Kana>>, <<Gloss1>>, t) : t \in SeqsUpTo(Tags, MaxTags)}
    \cup {EntryNoSenses}

\* entries that lack a field of the JishoResponse interface
MalformedEntries ==
    {[senses |-> EntryFull.senses],
     [japanese |-> EntryFull.japanese],
     [japanese |-> EntryFull.japanese, senses |-> <<[english_definitions |-> <<Gloss1>>]>>],
     [japanese |-> EntryFull.japanese, senses |-> <<[parts_of_speech |-> <<TagNoun>>]>>]}

RouteRequests == {[kind |-> "json", word |-> Nihongo], [kind |-> "unreadable"]}

RouteUpstream ==
    {[kind |-> "reject"], [kind |-> "badjson"], [kind |-> "nodata"],
     [kind |-> "data", data |-> <<>>],
     [kind |-> "data", data |-> <<EntryNoGloss, EntryFull>>]}
    \cup {[kind |-> "data", data |-> <<e>>] : e \in WellFormedEntries \cup MalformedEntries}

RouteInit ==
    /\ PageIdle
    /\ RankOff
    /\ ExportOff
    /\ request \in RouteRequests
    /\ upstream \in RouteUpstream
    /\ response = NoResponse

\* one call of the route
RoutePOST ==
    /\ response = NoResponse
    /\ response' = POST(request, upstream)
    /\ UNCHANGED <<request, upstream>>
    /\ UNCHANGED <<pageVars, rankVars, exportVars>>

RouteNext == RoutePOST

SpecRoute == RouteInit /\ [][RouteNext]_vars

(***************************************************************************)
(* Ranker properties                                                        *)
(***************************************************************************)
Occurrences(word, n) == Cardinality({i \in 1..n : tokens[i] = word})

FirstSeen(word) == CHOOSE i \in 1..Len(tokens) :
    tokens[i] = word /\ \A j \in 1..(i - 1) : tokens[j] # word

InKanjiBlock(c) == c \in 19968..40879

\* C9: a surface form is a key of the count map iff it is longer than one
\* code unit and has a character in U+4E00-U+9FAF, and its count is the number
\* of times it occurs among the tokens consumed so far; no key appears twice.
C9_CountMapExact ==
    rankPc # "off" =>
        /\ \A w \in Alphabet :
              MapHas(wordCount, w) <=>
                  /\ Occurrences(w, tokIdx) > 0
                  /\ Len(w) > 1
                  /\ \E i \in 1..Len(w) : InKanjiBlock(w[i])
        /\ \A i \in 1..Len(wordCount) :
              /\ wordCount[i].count = Occurrences(wordCount[i].word, tokIdx)
              /\ \A j \in 1..Len(wordCount) : wordCount[j].word = wordCount[i].word => j = i

C9_Witness ==
    /\ rankPc = "done"
    /\ \E i \in 1..Len(wordCount) : wordCount[i].count = 2
    /\ \E i \in 1..Len(tokens) : tokens[i] = Neko
    /\ \E i \in 1..Len(tokens) : tokens[i] = HiEdgeIn

RankedOrder ==
    \A i, j \in 1..Len(topWords) :
        i < j =>
            \/ topWords[i].count > topWords[j].count
            \/ /\ topWords[i].count = topWords[j].count
               /\ FirstSeen(topWords[i].word) < FirstSeen(topWords[j].word)

\* C10 as stated: sorted by count descending, ties in first-seen order, and the
\* example ranks as (nihongo,2), (tenki,2), (neko,1).
C10_AsStated ==
    rankPc = "done" =>
        /\ RankedOrder
        /\ tokens = ExampleTokens =>
              topWords = << [word |-> Nihongo, count |-> 2],
                            [word |-> Tenki, count |-> 2],
                            [word |-> Neko, count |-> 1] >>

\* C10 amended: sorted by count descending, ties in first-seen order; the
\* example ranks as (nihongo,2), (tenki,2): the one-character token neko is
\* not a candidate.
C10_RankedStable ==
    rankPc = "done" =>
        /\ RankedOrder
        /\ tokens = ExampleTokens =>
              topWords = << [word |-> Nihongo, count |-> 2],
                            [word |-> Tenki, count |-> 2] >>

C10_Witness ==
    /\ rankPc = "done"
    /\ Len(topWords) >= 3
    /\ topWords[1].count = 2
    /\ topWords[2].count = 1
    /\ topWords[3].count = 1
    /\ FirstSeen(topWords[1].word) > FirstSeen(topWords[3].word)

(***************************************************************************)
(* Page properties                                                          *)
(***************************************************************************)
Runs == 1..Len(run)

InFlight == {r \in Runs : run[r].pc # "done"}

MsgsOf(r) == {m \in net : m.run = r}

Ends(r) == run[r].pc # "done" /\ run'[r].pc = "done"

\* C1: the results list holds only words produced by the most recent run
\* (the run started last), in every reachable state.
C1_OnlyLatestRun ==
    results # <<>> => resultsOf = nRuns

\* C2: at most one run is in flight at any time, and while one is in flight
\* loading is true and the trigger is disabled.
C2_OneRunInFlight ==
    /\ Cardinality(InFlight) <= 1
    /\ InFlight # {} => loading /\ TriggerDisabled
    /\ InFlight = {} => ~loading

C2_Witness ==
    /\ nRuns = 2
    /\ run[1].pc = "done"
    /\ run[2].pc = "dictJson"
    /\ url # ""

\* C3: no run ever holds more than 20 kept candidates; a run that holds 20 has
\* ended and has no request outstanding; the results list never has more than
\* 20 entries.
C3_StopsAtTarget ==
    /\ Len(results) <= KeepTarget
    /\ \A r \in Runs :
          /\ Len(run[r].processedResults) <= KeepTarget
          /\ Len(run[r].processedResults) = KeepTarget =>
                run[r].pc = "done" /\ MsgsOf(r) = {}
          /\ run[r].pc = "done" => MsgsOf(r) = {}

C3_Witness ==
    \E r \in Runs :
        /\ run[r].pc = "done"
        /\ Len(run[r].processedResults) = KeepTarget
        /\ run[r].idx < Len(run[r].topWords)
        /\ results = run[r].processedResults

\* C4: a run that computed its candidate pool and ends with nothing kept ends
\* NoResults, not Failed: loading false, results empty, and the error is not
\* a transport-error message.
C4_NoResultsDistinct ==
    [][\A r \in Runs :
          (Ends(r) /\ run'[r].ranked /\ run'[r].processedResults = <<>>) =>
              /\ run'[r].outcome = "NoResults"
              /\ loading' = FALSE
              /\ results' = <<>>
              /\ error' \notin TransportErrors]_vars

C4_Witness ==
    \E r \in Runs :
        /\ run[r].outcome = "NoResults"
        /\ run[r].idx = PoolSize
        /\ Len(run[r].topWords) = PoolSize
        /\ ~loading
        /\ results = <<>>

\* a step in which the lookup of run r fails: its fetch rejects, its body does
\* not parse, or the body read is the 'Error fetching definition' sentinel
LookupFails(r) ==
    /\ run[r].pc \in {"dictFetch", "dictJson"}
    /\ \/ LookupFetchRejects
       \/ LookupJsonRejects
       \/ /\ LookupJsonResolves
          /\ \E m \in MsgsOf(r) : m.resp.body.definition = ErrorFetchingDefinition

IsPrefix(a, b) == Len(a) <= Len(b) /\ SubSeq(b, 1, Len(a)) = a

\* C5: a failing lookup only skips its candidate: nothing kept so far is lost,
\* the run does not end Failed, the next candidate in ranked order is requested
\* if there is one, and otherwise the run ends with what it kept. No step of
\* the loop drops a kept candidate, and a run that ends having kept some
\* shows all of them.
C5_LookupFailureSkips ==
    [][\A r \in Runs :
          /\ run[r].pc \in {"dictFetch", "dictJson"} =>
                /\ IsPrefix(run[r].processedResults, run'[r].processedResults)
                /\ (Ends(r) /\ run'[r].processedResults # <<>>) =>
                      results' = run'[r].processedResults
          /\ LookupFails(r) =>
              /\ run'[r].processedResults = run[r].processedResults
              /\ run'[r].outcome # "Failed"
              /\ error' \notin TransportErrors
              /\ IF run[r].idx < Len(run[r].topWords)
                 THEN /\ run'[r].pc = "dictFetch"
                      /\ run'[r].idx = run[r].idx + 1
                      /\ \E m \in net' :
                            /\ m.run = r
                            /\ m.st = "req"
                            /\ m.word = run[r].topWords[run[r].idx + 1].word
                 ELSE /\ run'[r].pc = "done"
                      /\ run[r].processedResults # <<>> =>
                            results' = run[r].processedResults]_vars

C5_Witness ==
    /\ world = "mixed"
    /\ \E r \in Runs :
          /\ run[r].outcome = "Success"
          /\ results = run[r].processedResults
          /\ \E i \in 1..(Len(results) - 1) :
                results[i].word = BigWord(1) /\ results[i + 1].word = BigWord(9)

\* C6: when the external dictionary has no entry for a word the route answers
\* with definition 'No definition found', and no kept candidate and no result
\* carries that definition.
C6_NoDefinitionSkipped ==
    /\ \A m \in net :
          (m.api = "dictionary" /\ m.up.kind = "data" /\ m.up.data = <<>>) =>
              m.resp.body.definition = NoDefinitionFound
    /\ \A r \in Runs : \A i \in 1..Len(run[r].processedResults) :
          run[r].processedResults[i].definition # NoDefinitionFound
    /\ \A i \in 1..Len(results) : results[i].definition # NoDefinitionFound

C6_Witness ==
    /\ world = "mixed"
    /\ \E r \in Runs :
          /\ run[r].outcome = "Success"
          /\ Len(run[r].topWords) = PoolSize
          /\ run[r].topWords[5].word = BigWord(4)
          /\ DictionaryUpstream(world, BigWord(4)) = {[kind |-> "data", data |-> <<>>]}
          /\ results = run[r].processedResults
          /\ \E i \in 1..(Len(results) - 1) :
                results[i].word = BigWord(1) /\ results[i + 1].word = BigWord(5)

\* C7: a submit with an empty url, or with the tokenizer not ready, only sets
\* a validation error: loading stays false, no run starts, no request is
\* issued and the results list is unchanged.
C7_RejectedSubmit ==
    [][(analyzeText /\ (url = "" \/ ~TokenizerReady)) =>
          /\ error' \in {"Please enter a URL", "Tokenizer not ready"}
          /\ loading = FALSE
          /\ loading' = FALSE
          /\ nRuns' = nRuns
          /\ run' = run
          /\ net' = net
          /\ results' = results]_vars

C7_Witness ==
    /\ error = "Please enter a URL"
    /\ url = ""
    /\ results # <<>>
    /\ ~loading

\* a step in which the extractor request of run r fails or gives no content
ExtractorFails(r) ==
    /\ run[r].pc \in {"fetchUrl", "fetchUrlJson"}
    /\ \/ ExtractorFetchRejects
       \/ ExtractorJsonRejects
       \/ /\ ExtractorJsonResolves
          /\ \E m \in MsgsOf(r) : Field(m.resp.body, "content", "") = ""

\* C8: when the extractor request fails or returns empty content the run ends
\* Failed with a non-empty transport-error message, loading false and empty
\* results, and no dictionary lookup is issued in that run.
C8_ExtractorFailure ==
    [][\A r \in Runs :
          ExtractorFails(r) =>
              /\ run'[r].outcome = "Failed"
              /\ error' \in TransportErrors
              /\ error' # ""
              /\ loading' = FALSE
              /\ results' = <<>>
              /\ run'[r].idx = 0
              /\ \A m \in net' : m.run = r => m.api # "dictionary"]_vars

(***************************************************************************)
(* Export properties                                                        *)
(***************************************************************************)
\* the fields of str between occurrences of the code unit sep
RECURSIVE SplitFrom(_, _, _, _)
SplitFrom(str, sep, i, cur) ==
    IF i > Len(str) THEN <<cur>>
    ELSE IF str[i] = sep THEN <<cur>> \o SplitFrom(str, sep, i + 1, <<>>)
    ELSE SplitFrom(str, sep, i + 1, Append(cur, str[i]))

Split(str, sep) == SplitFrom(str, sep, 1, <<>>)

DataRows(text) == Tail(Split(text, Newline))

\* C11: splitting each data row of the exported CSV on ';' recovers exactly
\* the word, reading, part of speech and definition of each rendered result,
\* in rendered order, also when the definition joins several glosses.
C11_CsvRoundTrip ==
    csv # <<>> =>
        /\ Len(DataRows(csv)) = Len(results)
        /\ \A i \in 1..Len(results) :
              Split(DataRows(csv)[i], Semicolon) =
                  <<results[i].word, results[i].reading,
                    results[i].partOfSpeech, results[i].definition>>

(***************************************************************************)
(* Dictionary route properties                                              *)
(***************************************************************************)
Answered == response # NoResponse

HasAllFields(e) ==
    /\ DOMAIN e = {"japanese", "senses"}
    /\ e.senses # <<>> => DOMAIN e.senses[1] = {"english_definitions", "parts_of_speech"}

\* the route was asked for a word and the external dictionary listed an entry
EntryFound ==
    /\ Answered
    /\ request.kind = "json"
    /\ upstream.kind = "data"
    /\ upstream.data # <<>>
    /\ HasAllFields(upstream.data[1])

FoundEntry == upstream.data[1]

FoundTags == FoundEntry.senses[1].parts_of_speech

\* t is the lowercased text of tag before its first space
IsFirstToken(t, tag) ==
    \E n \in 0..Len(tag) :
        /\ t = ToLowerCase(SubSeq(tag, 1, n))
        /\ \A k \in 1..n : tag[k] # Space
        /\ n = Len(tag) \/ tag[n + 1] = Space

Mentions(tag, class) ==
    \E k \in 1..Len(tag) :
        /\ k + Len(class) - 1 <= Len(tag)
        /\ \A d \in 1..Len(class) : tag[k + d - 1] = class[d]

\* C12 as stated: for a first tag whose first token lowercases to 'verb' the
\* label is 'ichidan verb' if any tag mentions ichidan, otherwise 'godan verb'
\* if any tag mentions godan, otherwise 'verb'; for a non-verb first tag the
\* label is its lowercased first token.
C12_AsStated ==
    (EntryFound /\ FoundEntry.senses # <<>> /\ FoundTags # <<>>) =>
        LET label == response.body.partOfSpeech
        IN  IF IsFirstToken(Verb, FoundTags[1])
            THEN label = IF \E i \in 1..Len(FoundTags) : Mentions(FoundTags[i], Ichidan)
                         THEN IchidanVerb
                         ELSE IF \E i \in 1..Len(FoundTags) : Mentions(FoundTags[i], Godan)
                              THEN GodanVerb
                              ELSE Verb
            ELSE IsFirstToken(label, FoundTags[1])

\* the positions of the tags that mention one of the two verb classes
ClassTags == {i \in 1..Len(FoundTags) :
                 Mentions(FoundTags[i], Ichidan) \/ Mentions(FoundTags[i], Godan)}

\* C12 amended: for a first tag whose first token lowercases to 'verb' the
\* label is decided by the first tag, in list order, that contains 'ichidan'
\* or 'godan': 'ichidan verb' if that tag contains 'ichidan', 'godan verb'
\* otherwise, and 'verb' when no tag contains either; for a non-verb first tag
\* the label is its lowercased first token, and 'noun' when that tag is empty.
C12_FirstClassTagDecides ==
    (EntryFound /\ FoundEntry.senses # <<>> /\ FoundTags # <<>>) =>
        LET label == response.body.partOfSpeech
        IN  IF IsFirstToken(Verb, FoundTags[1])
            THEN IF ClassTags = {} THEN label = Verb
                 ELSE \E k \in ClassTags :
                         /\ \A j \in ClassTags : k <= j
                         /\ label = IF Mentions(FoundTags[k], Ichidan)
                                    THEN IchidanVerb ELSE GodanVerb
            ELSE IF FoundTags[1] = <<>> THEN label = Noun
            ELSE IsFirstToken(label, FoundTags[1])

C12_Witness ==
    /\ EntryFound
    /\ FoundEntry.senses # <<>>
    /\ FoundTags = <<TagVerbUnspecified, GodanVerb, IchidanVerb>>
    /\ response.body.partOfSpeech = GodanVerb

FoundGlosses == FoundEntry.senses[1].english_definitions

\* the first n glosses, each after the first preceded by '; '
RECURSIVE GlueLeft(_, _)
GlueLeft(gs, n) ==
    IF n = 0 THEN <<>>
    ELSE IF n = 1 THEN gs[1]
    ELSE GlueLeft(gs, n - 1) \o <<Semicolon, Space>> \o gs[n]

\* C13 as stated: for every entry found the definition is the glosses of the
\* first sense joined with '; ', and the empty string when there are none.
C13_AsStated ==
    (EntryFound /\ FoundEntry.senses # <<>>) =>
        response.body.definition = GlueLeft(FoundGlosses, Len(FoundGlosses))

\* C13 amended: for every entry found the definition is the glosses of the
\* first sense joined with '; '; when that text is empty (no glosses, only
\* empty glosses, or no sense at all) it is 'No definition found'.
C13_JoinedOrSentinel ==
    EntryFound =>
        LET joined == IF FoundEntry.senses = <<>> THEN <<>>
                      ELSE GlueLeft(FoundGlosses, Len(FoundGlosses))
        IN  response.body.definition = IF joined = <<>> THEN NoDefinitionFound ELSE joined

C13_Witness ==
    /\ EntryFound
    /\ FoundEntry.senses # <<>>
    /\ FoundGlosses = <<>>
    /\ response.status = 200
    /\ response.body.definition = NoDefinitionFound

\* the request body cannot be read, the external dictionary cannot be reached,
\* its body is not JSON, or the JSON lacks a field the route expects
LookupFailure ==
    \/ request.kind = "unreadable"
    \/ upstream.kind \in {"reject", "badjson", "nodata"}
    \/ /\ upstream.kind = "data"
       /\ upstream.data # <<>>
       /\ ~HasAllFields(upstream.data[1])

\* C14: every transport or parse failure inside the route yields status 500
\* with definition 'Error fetching definition', empty reading, extraReadings 0
\* and partOfSpeech 'noun': never 'No definition found', never an exception
\* that leaves the handler.
C14_FailureSentinel ==
    (Answered /\ LookupFailure) =>
        /\ response.status = 500
        /\ response.body = [definition |-> ErrorFetchingDefinition, reading |-> <<>>,
                            extraReadings |-> 0, partOfSpeech |-> Noun]
        /\ response.body.definition # NoDefinitionFound

C14_Witness ==
    /\ Answered
    /\ request.kind = "json"
    /\ upstream = [kind |-> "data", data |-> <<[japanese |-> EntryFull.japanese]>>]
    /\ response.body.definition = ErrorFetchingDefinition

\* the positions of the forms of the entry that carry a reading
Listed == {i \in 1..Len(FoundEntry.japanese) : FoundEntry.japanese[i].reading # <<>>}

\* C17: for every entry found the primary reading is the first reading the
\* entry lists, in source order, and extraReadings is the number of listed
\* readings minus one when there is more than one, 0 otherwise.
C17_PrimaryReading ==
    EntryFound =>
        IF Listed = {}
        THEN /\ "reading" \notin DOMAIN response.body
             /\ response.body.extraReadings = 0
        ELSE /\ \E k \in Listed :
                   /\ \A j \in Listed : k <= j
                   /\ response.body.reading = FoundEntry.japanese[k].reading
             /\ response.body.extraReadings =
                   IF Cardinality(Listed) > 1 THEN Cardinality(Listed) - 1 ELSE 0

C17_Witness ==
    /\ EntryFound
    /\ Len(FoundEntry.japanese) = 3
    /\ FoundEntry.japanese[1].reading = <<>>
    /\ FoundEntry.japanese[2].reading = Kana
    /\ FoundEntry.japanese[3].reading = Ha
    /\ response.body.reading = Kana
    /\ response.body.extraReadings = 1

(***************************************************************************)
(* Request ordering, candidate pool, termination                            *)
(***************************************************************************)
Outstanding(r) == {m \in MsgsOf(r) : m.st \in {"req", "resp"}}

\* C15: within one run the extractor response is received before the first
\* dictionary request is sent, and the dictionary request for a candidate is
\* sent only after the response or failure of the previous one was received:
\* a run never has more than one request, and the one it has is the extractor
\* request before ranking or the request for the candidate the loop is at.
C15_RequestsOrdered ==
    \A r \in Runs :
        /\ Cardinality(MsgsOf(r)) <= 1
        /\ \A m \in MsgsOf(r) :
              /\ m.api = "fetch-url" =>
                    /\ run[r].pc \in {"fetchUrl", "fetchUrlJson"}
                    /\ ~run[r].ranked
                    /\ run[r].idx = 0
              /\ m.api = "dictionary" =>
                    /\ run[r].pc \in {"dictFetch", "dictJson"}
                    /\ run[r].ranked
                    /\ run[r].idx \in 1..Len(run[r].topWords)
                    /\ m.word = run[r].topWords[run[r].idx].word
        /\ run[r].pc \in {"fetchUrl", "dictFetch"} => Cardinality(Outstanding(r)) = 1
        /\ run[r].pc \in {"fetchUrlJson", "dictJson", "done"} => Outstanding(r) = {}

C15_Witness ==
    \E r \in Runs :
        /\ run[r].pc = "dictFetch"
        /\ run[r].idx = 4
        /\ Len(run[r].processedResults) = 1
        /\ \E m \in Outstanding(r) : m.api = "dictionary" /\ m.st = "req"

\* the page texts that reach the tokenizer
PageContents == {"example", "nokanji", "big"}

\* the candidates of a page, from its tokens alone: the tokens longer than one
\* code unit that have a character in the kanji block
PageCandidates ==
    [c \in PageContents |->
        {Tokenize(c)[i] : i \in {j \in 1..Len(Tokenize(c)) :
            /\ Len(Tokenize(c)[j]) > 1
            /\ \E k \in 1..Len(Tokenize(c)[j]) : InKanjiBlock(Tokenize(c)[j][k])}}]

PageOccurrences ==
    [c \in PageContents |->
        [w \in PageCandidates[c] |->
            Cardinality({i \in 1..Len(Tokenize(c)) : Tokenize(c)[i] = w})]]

PageFirstSeen ==
    [c \in PageContents |->
        [w \in PageCandidates[c] |->
            CHOOSE i \in 1..Len(Tokenize(c)) :
                Tokenize(c)[i] = w /\ \A j \in 1..(i - 1) : Tokenize(c)[j] # w]]

\* how many candidates rank before w: those that occur more often, or as often
\* and earlier
PageAhead ==
    [c \in PageContents |->
        [w \in PageCandidates[c] |->
            Cardinality({v \in PageCandidates[c] :
                \/ PageOccurrences[c][v] > PageOccurrences[c][w]
                \/ /\ PageOccurrences[c][v] = PageOccurrences[c][w]
                   /\ PageFirstSeen[c][v] < PageFirstSeen[c][w]})]]

\* the first PoolSize candidates of a page in ranked order
FirstRanked ==
    [c \in PageContents |->
        [i \in 1..(IF Cardinality(PageCandidates[c]) < PoolSize
                   THEN Cardinality(PageCandidates[c]) ELSE PoolSize) |->
            LET w == CHOOSE v \in PageCandidates[c] : PageAhead[c][v] = i - 1
            IN  [word |-> w, count |-> PageOccurrences[c][w]]]]

\* kept is a subsequence of the first upTo elements of pool, order preserved
\* (the words of pool are pairwise different)
SubsequenceOf(kept, pool, upTo) ==
    /\ \A i \in 1..Len(kept) :
          \E p \in 1..upTo : pool[p].word = kept[i].word /\ pool[p].count = kept[i].count
    /\ \A i \in 1..(Len(kept) - 1) :
          (CHOOSE p \in 1..upTo : pool[p].word = kept[i].word)
              < (CHOOSE q \in 1..upTo : pool[q].word = kept[i + 1].word)

\* C16: the results of every finished run are an order-preserving subsequence
\* of the first 50 ranked candidates of its page: the pool of the run is those
\* candidates, only words of the pool are looked up or kept, each at most
\* once, and counts do not increase along the list.
C16_ResultsFromPool ==
    \A r \in Runs :
        run[r].ranked =>
            LET rec == run[r]
                pool == FirstRanked[rec.content]
                kept == rec.processedResults
            IN  /\ Len(pool) <= PoolSize
                /\ [i \in 1..Len(rec.topWords) |->
                       [word |-> rec.topWords[i].word, count |-> rec.topWords[i].count]] = pool
                /\ rec.idx <= Len(pool)
                /\ \A m \in MsgsOf(r) :
                      m.api = "dictionary" => \E p \in 1..Len(pool) : pool[p].word = m.word
                /\ SubsequenceOf(kept, pool, rec.idx)
                /\ \A i, j \in 1..Len(kept) : kept[i].word = kept[j].word => i = j
                /\ \A i \in 1..(Len(kept) - 1) : kept[i].count >= kept[i + 1].count
                /\ (rec.pc = "done" /\ rec.outcome = "Success" /\ resultsOf = r) => results = kept

C16_Witness ==
    \E r \in Runs :
        /\ run[r].pc = "done"
        /\ run[r].content = "big"
        /\ run[r].idx = PoolSize
        /\ Len(run[r].topWords) = PoolSize
        /\ Len(run[r].processedResults) > 2
        /\ results = run[r].processedResults
        /\ \A i \in 1..Len(results) : results[i].word # BigWord(PoolSize)

\* C18: every run that enters Loading eventually leaves it, whichever way it
\* ends: loading is false again and the trigger is enabled again.
C18_LoadingEnds == loading ~> (~loading /\ ~TriggerDisabled)

C18_Witness ==
    \E r \in Runs :
        /\ run[r].pc = "done"
        /\ run[r].outcome = "Failed"
        /\ error = "tokenize failed"
        /\ ~loading
        /\ ~TriggerDisabled

====
